---- MODULE Spec2Model ----
(***************************************************************************)
(* Model of the WatchGraph API core (src/app.py, src/models.py): the       *)
(* registration of AI systems with the automatic assignment of the         *)
(* applicable requirements, the status update of a tracking record         *)
(* (RequirementMapping) and the read endpoints, among them the compliance  *)
(* summary.                                                                *)
(*                                                                         *)
(* The state is the committed content of the relational store, as any      *)
(* other database session sees it.  One action is one database             *)
(* statement that reads or writes rows other sessions change:              *)
(* create_ai_system commits twice (app.py:140 and app.py:161) and is two   *)
(* actions; update_requirement_status reads the mapping (app.py:365),      *)
(* commits its UPDATE (app.py:382) and reads the mapping again             *)
(* (app.py:383) and is three actions.  Requests of other sessions may run  *)
(* between the actions of a handler.  The read handlers read rows that     *)
(* change with one statement and are one action each.                      *)
(* The descriptive columns that no modelled operation reads (name,         *)
(* description, organization, department, owner_email, article, title)     *)
(* are left out of the rows.                                               *)
(***************************************************************************)
EXTENDS Integers, Sequences, FiniteSets

VARIABLES
    catalog,    \* table compliance_requirements, in row order
    systems,    \* table ai_systems, in row order
    mappings,   \* table requirement_mappings, in row order
    inflight,   \* ids of systems whose create_ai_system is between its two commits
    sessions,   \* the update_requirement_status requests that have not answered yet
    now,        \* the clock read by datetime.utcnow at INSERT / UPDATE
    last        \* the last request answered: its operation, inputs and response

vars == <<catalog, systems, mappings, inflight, sessions, now, last>>
store == <<catalog, systems, mappings>>

-----------------------------------------------------------------------------
(* Bounds of the model *)

MaxSystems == 2    \* systems registered (Spec)
MaxClock == 4      \* committed INSERT / UPDATE batches (Spec)
MaxEdits == 2      \* UPDATE statements committed (SpecUpd, SpecTrans)
MaxSessions == 2   \* update requests in progress at a time (SpecUpd, SpecTrans)
MaxRecs == 4       \* tracking records of the summarised system (SpecAgg)

-----------------------------------------------------------------------------
(* models.py enumerations *)

RiskCategory == {"unacceptable", "high", "limited", "minimal"}

NOT_STARTED == "not_started"
ComplianceStatus == {"not_started", "in_progress", "completed", "non_compliant"}

None == "None"

(* The bodies of the update requests of SpecUpd (RequirementStatusUpdate): *)
(* a status that equals the stored one or differs from it, with notes and  *)
(* updated_by omitted, one of them provided, or both.                      *)
UpdateInputs ==
    {[status |-> st, notes |-> p[1], updated_by |-> p[2]] :
        st \in {"in_progress", "completed"},
        p \in {<<None, None>>, <<"", None>>, <<None, "u2">>, <<"n1", "u1">>}}

(* Stored text of the applies_to column: a JSON list of category names, or *)
(* text that is no JSON document.                                          *)
AppliesHigh == [json |-> TRUE, items |-> <<"high">>]
AppliesHighLimited == [json |-> TRUE, items |-> <<"high", "limited">>]
Unparseable == [json |-> FALSE, items |-> <<>>]

(* json.loads: the parsed list, or a raised error *)
json_loads(text) ==
    IF text.json THEN [ok |-> TRUE, value |-> text.items]
    ELSE [ok |-> FALSE, value |-> <<>>]

(* Mutant: only the first entry of the list is compared *)
InList_first(x, list) == Len(list) > 0 /\ list[1] = x

(* Python's `x in list` *)
InList(x, list) == \E i \in 1..Len(list) : list[i] = x

Range(seq) == {seq[i] : i \in 1..Len(seq)}

-----------------------------------------------------------------------------
(* Rows *)

AISystem(id, risk, t) ==
    [id |-> id, risk_category |-> risk, created_at |-> t, updated_at |-> t]

RequirementMapping(id, sid, rid, t) ==
    [id |-> id, ai_system_id |-> sid, requirement_id |-> rid,
     status |-> NOT_STARTED, notes |-> None, updated_by |-> None,
     created_at |-> t, updated_at |-> t]

ComplianceRequirement(id, text) == [id |-> id, applies_to |-> text]

(* The catalogs the store may be seeded with *)
Catalogs ==
    { <<>>,
      <<ComplianceRequirement(1, AppliesHigh)>>,
      <<ComplianceRequirement(1, Unparseable)>>,
      <<ComplianceRequirement(1, AppliesHighLimited), ComplianceRequirement(2, AppliesHigh)>>,
      <<ComplianceRequirement(1, AppliesHigh), ComplianceRequirement(2, Unparseable)>> }

(* db.query(X).filter(X.id == id).first() *)
FindById(table, id) == {i \in 1..Len(table) : table[i].id = id}

(* db.query(RequirementMapping).filter(ai_system_id == sid).all() *)
MappingsOf(sid) == SelectSeq(mappings, LAMBDA m : m.ai_system_id = sid)

NoReq == [none |-> TRUE]
NoBody == [none |-> TRUE]
(* No request has been made *)
NoRequest == [op |-> "none", id |-> 0, req |-> NoReq, code |-> 0, body |-> NoBody,
              repeat |-> FALSE]

(* What last holds of a request: its operation and input, the status code  *)
(* and body of its answer (code 0: not answered yet), and whether it       *)
(* repeats the request before it.                                          *)
Response(op, id, req, code, body) ==
    [op |-> op, id |-> id, req |-> req, code |-> code, body |-> body,
     repeat |-> last.op = op /\ last.id = id /\ last.req = req]

(* The orders in which a query without ORDER BY may return the rows *)
Orders(rows) ==
    LET n == Len(rows)
        perms == {f \in [1..n -> 1..n] : \A i, j \in 1..n : f[i] = f[j] => i = j}
    IN  {[k \in 1..n |-> rows[f[k]]] : f \in perms}

NotFound(op, id, req) == Response(op, id, req, 404, NoBody)
ServerError(op, id, req) == Response(op, id, req, 500, NoBody)

AISystemResponse(s) ==
    [id |-> s.id, risk_category |-> s.risk_category,
     created_at |-> s.created_at, updated_at |-> s.updated_at]

-----------------------------------------------------------------------------
(* create_ai_system, first transaction (app.py:130-141): the system row is *)
(* inserted and committed.  No response has been sent yet.                 *)

create_ai_system_insert(risk) ==
    /\ Len(systems) < MaxSystems
    /\ LET id == Len(systems) + 1 IN
        /\ systems' = Append(systems, AISystem(id, risk, now + 1))
        /\ inflight' = inflight \cup {id}
        /\ last' = Response("create_ai_system", id, [risk_category |-> risk], 0, NoBody)
    /\ now' = now + 1
    /\ UNCHANGED <<catalog, mappings, sessions>>

(* The loop of app.py:147-159 over requirements i..Len(reqs): the ids of   *)
(* the requirements a mapping is added for, or the error json.loads raised *)
RECURSIVE AssignLoop(_, _, _, _)
AssignLoop(reqs, risk, i, acc) ==
    IF i > Len(reqs) THEN [ok |-> TRUE, ids |-> acc]
    ELSE LET applies_to == json_loads(reqs[i].applies_to) IN
         IF ~applies_to.ok THEN [ok |-> FALSE, ids |-> acc]
         ELSE IF InList(risk, applies_to.value)
              THEN AssignLoop(reqs, risk, i + 1, Append(acc, reqs[i].id))
              ELSE AssignLoop(reqs, risk, i + 1, acc)

(* Mutant: every mapping is added to the session twice *)
NewMappings_twice(sid, ids, t) ==
    [k \in 1..(2 * Len(ids)) |->
        RequirementMapping(Len(mappings) + k, sid, ids[((k - 1) % Len(ids)) + 1], t)]

(* The rows the session holds for db.commit() at app.py:161 *)
NewMappings(sid, ids, t) ==
    [k \in 1..Len(ids) |-> RequirementMapping(Len(mappings) + k, sid, ids[k], t)]

(* create_ai_system, second transaction (app.py:144-176): the catalog is   *)
(* read, the applicable mappings are added and committed together.  A      *)
(* failing catalog query or json.loads raises: the session is closed with  *)
(* the pending mappings uncommitted, and the system row stays committed.   *)
create_ai_system_assign(sid, queryFails) ==
    /\ sid \in inflight
    /\ LET sys == systems[CHOOSE i \in FindById(systems, sid) : TRUE]
           req == [risk_category |-> sys.risk_category]
           loop == AssignLoop(catalog, sys.risk_category, 1, <<>>)
       IN
        IF queryFails \/ ~loop.ok
        THEN /\ last' = ServerError("create_ai_system", sid, req)
             /\ UNCHANGED <<mappings, now>>
        ELSE /\ mappings' = mappings \o NewMappings(sid, loop.ids, now + 1)
             /\ now' = IF Len(loop.ids) > 0 THEN now + 1 ELSE now
             /\ last' = Response("create_ai_system", sid, req, 201,
                                 AISystemResponse(sys))
    /\ inflight' = inflight \ {sid}
    /\ UNCHANGED <<catalog, systems, sessions>>

-----------------------------------------------------------------------------
(* Read endpoints *)

(* app.py:178-200 *)
list_ai_systems ==
    /\ \E rows \in Orders(systems) :
        last' = Response("list_ai_systems", 0, NoReq, 200,
                         [items |-> [i \in 1..Len(rows) |-> AISystemResponse(rows[i])]])
    /\ UNCHANGED <<catalog, systems, mappings, inflight, sessions, now>>

(* Mutant: the lookup stamps the row it reads *)
get_ai_system_touch(system_id) ==
    /\ LET found == FindById(systems, system_id) IN
        IF found = {}
        THEN /\ last' = NotFound("get_ai_system", system_id, NoReq)
             /\ UNCHANGED <<systems, now>>
        ELSE LET i == CHOOSE i \in found : TRUE IN
             /\ systems' = [systems EXCEPT ![i].updated_at = now + 1]
             /\ now' = now + 1
             /\ last' = Response("get_ai_system", system_id, NoReq, 200,
                                 AISystemResponse(systems'[i]))
    /\ UNCHANGED <<catalog, mappings, inflight, sessions>>

(* app.py:202-224 *)
get_ai_system(system_id) ==
    /\ LET found == FindById(systems, system_id) IN
        last' = IF found = {} THEN NotFound("get_ai_system", system_id, NoReq)
                ELSE Response("get_ai_system", system_id, NoReq, 200,
                              AISystemResponse(systems[CHOOSE i \in found : TRUE]))
    /\ UNCHANGED <<catalog, systems, mappings, inflight, sessions, now>>

(* app.py:227-246 *)
list_requirements ==
    /\ \E rows \in Orders(catalog) :
        last' = IF \E i \in 1..Len(rows) : ~json_loads(rows[i].applies_to).ok
                THEN ServerError("list_requirements", 0, NoReq)
                ELSE Response("list_requirements", 0, NoReq, 200,
                         [items |-> [i \in 1..Len(rows) |->
                             [id |-> rows[i].id,
                              applies_to |-> json_loads(rows[i].applies_to).value]]])
    /\ UNCHANGED <<catalog, systems, mappings, inflight, sessions, now>>

(* app.py:267-286: one entry per mapping whose requirement is in the catalog *)
RequirementEntries(ms) ==
    LET joined == SelectSeq(ms, LAMBDA m : FindById(catalog, m.requirement_id) # {}) IN
    [k \in 1..Len(joined) |->
        [mapping_id |-> joined[k].id,
         requirement_id |-> joined[k].requirement_id,
         status |-> joined[k].status,
         notes |-> joined[k].notes,
         updated_at |-> joined[k].updated_at]]

(* Mutant: the existence check of app.py:258-260 is missing *)
get_system_requirements_nocheck(system_id) ==
    /\ \E rows \in Orders(MappingsOf(system_id)) :
        last' = Response("get_system_requirements", system_id, NoReq, 200,
                         [items |-> RequirementEntries(rows)])
    /\ UNCHANGED <<catalog, systems, mappings, inflight, sessions, now>>

(* app.py:248-286 *)
get_system_requirements(system_id) ==
    /\ \E rows \in Orders(MappingsOf(system_id)) :
        last' = IF FindById(systems, system_id) = {}
                THEN NotFound("get_system_requirements", system_id, NoReq)
                ELSE Response("get_system_requirements", system_id, NoReq, 200,
                              [items |-> RequirementEntries(rows)])
    /\ UNCHANGED <<catalog, systems, mappings, inflight, sessions, now>>

(* Number of the mappings ms whose status is s (app.py:326-327) *)
CountStatus(ms, s) == Cardinality({i \in 1..Len(ms) : ms[i].status = s})

(* Binary floating point (IEEE 754 double) as Python computes with it.  A  *)
(* significand of 53 bits is a sequence of limbs of 13 bits, lowest first; *)
(* a double is [m |-> significand, e |-> exponent], of value m * 2^e.      *)
(* The quotient is exact for totals below 2^18.                            *)
Limb == 2^13

LimbAt(p, i) == IF i \in 1..Len(p) THEN p[i] ELSE 0

BitAt(p, i) == (LimbAt(p, (i \div 13) + 1) \div 2^(i % 13)) % 2

BitLen(p) == CHOOSE n \in 0..(13 * Len(p)) :
                /\ n = 0 \/ BitAt(p, n - 1) = 1
                /\ \A i \in n..(13 * Len(p) - 1) : BitAt(p, i) = 0

RECURSIVE LimbsValue(_)
LimbsValue(p) == IF p = <<>> THEN 0 ELSE p[1] + Limb * LimbsValue(Tail(p))

RECURSIVE Increment(_)
Increment(q) ==
    IF q = <<>> THEN <<1>>
    ELSE IF q[1] + 1 < Limb THEN <<q[1] + 1>> \o Tail(q)
    ELSE <<0>> \o Increment(Tail(q))

RECURSIVE MulSmall(_, _, _)
MulSmall(p, n, carry) ==
    IF p = <<>> THEN (IF carry = 0 THEN <<>> ELSE <<carry>>)
    ELSE LET v == p[1] * n + carry
         IN  <<v % Limb>> \o MulSmall(Tail(p), n, v \div Limb)

ShiftRight(p, s) ==
    [k \in 1..Len(p) |->
        LET lo == s + 13 * (k - 1)
            a == lo \div 13
            b == lo % 13
        IN  (LimbAt(p, a + 1) \div 2^b) + (LimbAt(p, a + 2) % 2^b) * 2^(13 - b)]

(* p / 2^s rounded to the nearest integer, ties to even *)
RoundShift(p, s) ==
    LET q == ShiftRight(p, s)
        half == s >= 1 /\ BitAt(p, s - 1) = 1
        more == \E i \in 0..(s - 2) : BitAt(p, i) = 1
        odd == BitAt(q, 0) = 1
    IN  IF half /\ (more \/ odd) THEN Increment(q) ELSE q

RECURSIVE DivLimbs(_, _, _, _)
DivLimbs(r, t, n, acc) ==
    IF n = 0 THEN [limbs |-> acc, rem |-> r]
    ELSE DivLimbs((r * Limb) % t, t, n - 1, <<(r * Limb) \div t>> \o acc)

RECURSIVE Normalise(_, _, _)
Normalise(c, t, k) == IF c >= t THEN [k |-> k, num |-> c] ELSE Normalise(2 * c, t, k + 1)

(* completed / total of app.py:330, for 0 < completed <= total *)
FloatDiv(c, t) ==
    LET n == Normalise(c, t, 0)
        q == DivLimbs(n.num - t, t, 4, <<1>>)
        half == 2 * q.rem >= t
        more == 2 * q.rem # t
    IN  [m |-> IF half /\ (more \/ q.limbs[1] % 2 = 1) THEN Increment(q.limbs) ELSE q.limbs,
         e |-> 0 - 52 - n.k]

(* x * 100 of app.py:330 *)
FloatTimes100(x) ==
    LET p == MulSmall(x.m, 100, 0)
        d == BitLen(p) - 53
    IN  [m |-> RoundShift(p, d), e |-> x.e + d]

(* round(x, 2) of app.py:337, in hundredths *)
PyRound2(x) == LimbsValue(RoundShift(MulSmall(x.m, 100, 0), 0 - x.e))

(* Mutant: the percentage is truncated to two decimals, not rounded *)
CompliancePercentage_trunc(completed, total) == (completed * 10000) \div total

(* round((completed / total) * 100, 2) of app.py:330 and app.py:337, in    *)
(* hundredths of a percent                                                 *)
CompliancePercentage(completed, total) ==
    IF completed = 0 THEN 0
    ELSE PyRound2(FloatTimes100(FloatDiv(completed, total)))

(* Mutant: a system without mappings counts as fully compliant *)
ComplianceSummary_vacuous(sys, ms) ==
    [system_id |-> sys.id,
     risk_category |-> sys.risk_category,
     total_requirements |-> Len(ms),
     compliance_percentage |->
        IF Len(ms) = 0 THEN 10000
        ELSE CompliancePercentage(CountStatus(ms, "completed"), Len(ms)),
     status_breakdown |-> [s \in ComplianceStatus |-> CountStatus(ms, s)]]

(* The summary of app.py:307-343 for system sys with mappings ms *)
ComplianceSummary(sys, ms) ==
    IF Len(ms) = 0
    THEN [system_id |-> sys.id,
          risk_category |-> sys.risk_category,
          total_requirements |-> 0,
          compliance_percentage |-> 0,
          status_breakdown |-> [s \in {} |-> 0]]
    ELSE LET status_counts == [s \in ComplianceStatus |-> CountStatus(ms, s)] IN
         [system_id |-> sys.id,
          risk_category |-> sys.risk_category,
          total_requirements |-> Len(ms),
          compliance_percentage |-> CompliancePercentage(status_counts["completed"], Len(ms)),
          status_breakdown |-> status_counts,
          requirements_completed |-> status_counts["completed"],
          requirements_in_progress |-> status_counts["in_progress"],
          requirements_not_started |-> status_counts["not_started"],
          requirements_non_compliant |-> status_counts["non_compliant"]]

(* app.py:288-343 *)
get_system_compliance(system_id) ==
    /\ LET found == FindById(systems, system_id) IN
        last' = IF found = {} THEN NotFound("get_system_compliance", system_id, NoReq)
                ELSE Response("get_system_compliance", system_id, NoReq, 200,
                              ComplianceSummary(systems[CHOOSE i \in found : TRUE],
                                                MappingsOf(system_id)))
    /\ UNCHANGED <<catalog, systems, mappings, inflight, sessions, now>>

-----------------------------------------------------------------------------
(* Status update *)

(* Mutant: notes and updated_by are assigned whether provided or not *)
ApplyUpdate_overwrite(m, status, notes, updated_by) ==
    [m EXCEPT !.status = status, !.notes = notes, !.updated_by = updated_by]

(* app.py:376-380: the attribute assignments on the loaded row *)
ApplyUpdate(m, status, notes, updated_by) ==
    [m EXCEPT !.status = status,
              !.notes = IF notes # None THEN notes ELSE @,
              !.updated_by = IF updated_by # None THEN updated_by ELSE @]

(* db.commit() of app.py:382 on the stored row: the session emits an       *)
(* UPDATE only when an assigned attribute differs from the loaded one; it  *)
(* sets the attributes that differ and, by the onupdate default of         *)
(* models.py:75, updated_at.                                               *)
FlushUpdate(stored, loaded, assigned, t) ==
    IF assigned = loaded THEN stored
    ELSE [stored EXCEPT
            !.status = IF assigned.status # loaded.status THEN assigned.status ELSE @,
            !.notes = IF assigned.notes # loaded.notes THEN assigned.notes ELSE @,
            !.updated_by = IF assigned.updated_by # loaded.updated_by
                           THEN assigned.updated_by ELSE @,
            !.updated_at = t]

(* Mutant: old_status is read from the row after the assignment *)
UpdateResponseBody_after(old_status, row) ==
    [mapping_id |-> row.id,
     requirement_id |-> row.requirement_id,
     old_status |-> row.status,
     new_status |-> row.status,
     notes |-> row.notes,
     updated_by |-> row.updated_by,
     updated_at |-> row.updated_at]

(* The response of app.py:393-403 *)
UpdateResponseBody(old_status, row) ==
    [mapping_id |-> row.id,
     requirement_id |-> row.requirement_id,
     old_status |-> old_status,
     new_status |-> row.status,
     notes |-> row.notes,
     updated_by |-> row.updated_by,
     updated_at |-> row.updated_at]

(* A number that no request in progress has; it tells two requests with   *)
(* the same input apart.                                                   *)
FreeSession == CHOOSE n \in 1..(Cardinality(sessions) + 1) :
                    \A s \in sessions : s.n # n

(* What last holds while an update request has not answered yet *)
UpdateInProgress(mapping_id, req) ==
    Response("update_requirement_status", mapping_id, req, 0, NoBody)

(* app.py:362-373: the mapping is looked up and its status kept *)
update_requirement_status_load(mapping_id, status, notes, updated_by) ==
    /\ LET found == FindById(mappings, mapping_id)
           req == [status |-> status, notes |-> notes, updated_by |-> updated_by]
       IN
        IF found = {}
        THEN /\ last' = NotFound("update_requirement_status", mapping_id, req)
             /\ UNCHANGED sessions
        ELSE LET mapping == mappings[CHOOSE i \in found : TRUE] IN
             /\ sessions' = sessions \cup
                    {[n |-> FreeSession, mapping_id |-> mapping_id, req |-> req,
                      old_status |-> mapping.status, row |-> mapping, phase |-> "loaded"]}
             /\ last' = UpdateInProgress(mapping_id, req)
    /\ UNCHANGED <<catalog, systems, mappings, inflight, now>>

(* app.py:375-382: the attributes are assigned and the change committed *)
update_requirement_status_commit(s) ==
    /\ s \in sessions
    /\ s.phase = "loaded"
    /\ LET i == CHOOSE i \in FindById(mappings, s.mapping_id) : TRUE
           assigned == ApplyUpdate(s.row, s.req.status, s.req.notes, s.req.updated_by)
           written == assigned # s.row
       IN
        /\ mappings' = [mappings EXCEPT ![i] = FlushUpdate(@, s.row, assigned, now + 1)]
        /\ now' = IF written THEN now + 1 ELSE now
        /\ sessions' = (sessions \ {s}) \cup
                {[s EXCEPT !.phase = "committed",
                           !.row = IF written THEN [assigned EXCEPT !.updated_at = now + 1]
                                   ELSE assigned]}
    /\ last' = UpdateInProgress(s.mapping_id, s.req)
    /\ UNCHANGED <<catalog, systems, inflight>>

(* app.py:383-403: the mapping is read again, its requirement looked up    *)
(* and the response built.  requirement.title at app.py:390 raises when    *)
(* the requirement row is missing.                                         *)
update_requirement_status_respond(s) ==
    /\ s \in sessions
    /\ s.phase = "committed"
    /\ LET mapping == mappings[CHOOSE i \in FindById(mappings, s.mapping_id) : TRUE] IN
        last' = IF FindById(catalog, mapping.requirement_id) = {}
                THEN ServerError("update_requirement_status", s.mapping_id, s.req)
                ELSE Response("update_requirement_status", s.mapping_id, s.req, 200,
                              UpdateResponseBody(s.old_status, mapping))
    /\ sessions' = sessions \ {s}
    /\ UNCHANGED <<catalog, systems, mappings, inflight, now>>

-----------------------------------------------------------------------------
(* The identifiers requests name: those of the rows, and one of no row *)
SystemIds == 1..(Len(systems) + 1)
MappingIds == 1..(Len(mappings) + 1)

(* The update requests that have not committed yet *)
Uncommitted == {s \in sessions : s.phase = "loaded"}

(* Clock ticks used, and those the requests in progress may still use *)
ClockUsed == now + Cardinality(inflight) + Cardinality(Uncommitted)

(* Number of UPDATE statements committed so far: the clock ticks once per  *)
(* committed INSERT or UPDATE batch.                                       *)
UpdateTicks ==
    now - Len(systems) - Cardinality({mappings[i].ai_system_id : i \in 1..Len(mappings)})

Init ==
    /\ catalog \in Catalogs
    /\ systems = <<>>
    /\ mappings = <<>>
    /\ inflight = {}
    /\ sessions = {}
    /\ now = 0
    /\ last = NoRequest

Next ==
    \/ \E risk \in RiskCategory :
            /\ ClockUsed + 2 <= MaxClock
            /\ create_ai_system_insert(risk)
    \/ \E sid \in SystemIds, queryFails \in BOOLEAN : create_ai_system_assign(sid, queryFails)
    \/ list_ai_systems
    \/ \E id \in SystemIds : get_ai_system(id)
    \/ list_requirements
    \/ \E id \in SystemIds : get_system_requirements(id)
    \/ \E id \in SystemIds : get_system_compliance(id)
    \/ \E id \in MappingIds, status \in ComplianceStatus :
            /\ sessions = {}
            /\ ClockUsed < MaxClock
            /\ update_requirement_status_load(id, status, None, None)
    \/ \E s \in sessions : update_requirement_status_commit(s)
    \/ \E s \in sessions : update_requirement_status_respond(s)

(* Spec: registrations that overlap each other and every other request;    *)
(* status-only updates, one in progress at a time.                         *)
Spec == Init /\ [][Next]_vars

-----------------------------------------------------------------------------
(* Whether the commit of request s emits an UPDATE (app.py:376-382) *)
Writes(s) == ApplyUpdate(s.row, s.req.status, s.req.notes, s.req.updated_by) # s.row

(* The requests that may commit: all while UPDATE statements remain to     *)
(* MaxEdits, and those that emit none.                                     *)
MayCommit == {s \in sessions : UpdateTicks < MaxEdits \/ ~Writes(s)}

(* SpecUpd: overlapping status updates of one tracking record, with notes  *)
(* and updater provided or omitted.  The store is the one that             *)
(* the registration of a high-risk system against a one-requirement        *)
(* catalog and a first update with notes and an updater leave.             *)
InitUpd ==
    LET row == [RequirementMapping(1, 1, 1, 2) EXCEPT
                    !.status = "in_progress", !.notes = "n1", !.updated_by = "u1",
                    !.updated_at = 3]
    IN
    /\ catalog = <<ComplianceRequirement(1, AppliesHighLimited)>>
    /\ systems = <<AISystem(1, "high", 1)>>
    /\ mappings = <<row>>
    /\ inflight = {}
    /\ sessions = {}
    /\ now = 3
    /\ last = [NoRequest EXCEPT
                    !.op = "update_requirement_status", !.id = 1,
                    !.req = [status |-> "in_progress", notes |-> "n1", updated_by |-> "u1"],
                    !.code = 200, !.body = UpdateResponseBody(NOT_STARTED, row)]

NextUpd ==
    \/ \E id \in MappingIds, update \in UpdateInputs :
            /\ Cardinality(sessions) < MaxSessions
            /\ UpdateTicks < MaxEdits
            /\ update_requirement_status_load(id, update.status, update.notes,
                                              update.updated_by)
    \/ \E s \in MayCommit : update_requirement_status_commit(s)
    \/ \E s \in sessions : update_requirement_status_respond(s)

SpecUpd == InitUpd /\ [][NextUpd]_vars

-----------------------------------------------------------------------------
(* SpecTrans: overlapping status-only updates of one tracking record, from *)
(* the store as the registration of a high-risk system against a           *)
(* one-requirement catalog leaves it.                                      *)
InitTrans ==
    /\ catalog = <<ComplianceRequirement(1, AppliesHighLimited)>>
    /\ systems = <<AISystem(1, "high", 1)>>
    /\ mappings = <<RequirementMapping(1, 1, 1, 2)>>
    /\ inflight = {}
    /\ sessions = {}
    /\ now = 2
    /\ last = [NoRequest EXCEPT !.op = "create_ai_system", !.id = 1,
                                !.req = [risk_category |-> "high"], !.code = 201,
                                !.body = AISystemResponse(AISystem(1, "high", 1))]

NextTrans ==
    \/ \E id \in MappingIds, status \in ComplianceStatus :
            /\ Cardinality(sessions) < MaxSessions
            /\ UpdateTicks < MaxEdits
            /\ update_requirement_status_load(id, status, None, None)
    \/ \E s \in MayCommit : update_requirement_status_commit(s)
    \/ \E s \in sessions : update_requirement_status_respond(s)

SpecTrans == InitTrans /\ [][NextTrans]_vars

-----------------------------------------------------------------------------
(* SpecAgg: the compliance summary of a system with 0..MaxRecs tracking    *)
(* records in every combination of statuses.  The store is the one that    *)
(* registering a high-risk system and then updating, in row order, the     *)
(* records whose status is not not_started leaves.                         *)

UpdatedBefore(statuses, k) ==
    Cardinality({j \in 1..k : statuses[j] # NOT_STARTED})

InitAgg ==
    \E n \in 0..MaxRecs : \E statuses \in [1..n -> ComplianceStatus] :
        /\ catalog = [i \in 1..n |->
                ComplianceRequirement(i, AppliesHigh)]
        /\ systems = <<AISystem(1, "high", 1)>>
        /\ mappings = [k \in 1..n |->
                [RequirementMapping(k, 1, k, 2) EXCEPT
                    !.status = statuses[k],
                    !.updated_at = IF statuses[k] = NOT_STARTED THEN 2
                                   ELSE 2 + UpdatedBefore(statuses, k)]]
        /\ inflight = {}
        /\ sessions = {}
        /\ now = (IF n = 0 THEN 1 ELSE 2) + UpdatedBefore(statuses, n)
        /\ last = NoRequest

NextAgg ==
    \/ \E id \in SystemIds : get_system_compliance(id)
    \/ \E id \in SystemIds : get_ai_system(id)

SpecAgg == InitAgg /\ [][NextAgg]_vars
-----------------------------------------------------------------------------
(* Properties *)

(* Row indices of the tracking records of system sid for requirement rid *)
RecordsFor(sid, rid) ==
    {i \in 1..Len(mappings) :
        mappings[i].ai_system_id = sid /\ mappings[i].requirement_id = rid}

(* The rows of table whose id is id, before and after a step *)
RowOf(table, id) == table[CHOOSE i \in FindById(table, id) : TRUE]

RegisterCompleted == last.op = "create_ai_system" /\ last.code = 201

(* C1: when register-system has completed for a system with risk category  *)
(* R, every requirement Q of the catalog has exactly one tracking record   *)
(* of that system if R is in Q's applicability set and none otherwise, and *)
(* each record has status not_started, no notes and no updater.            *)
C1_ApplicabilityCorrect ==
    RegisterCompleted =>
        \A q \in 1..Len(catalog) :
            LET applies == Range(catalog[q].applies_to.items)
                recs == RecordsFor(last.id, catalog[q].id)
            IN  /\ catalog[q].applies_to.json
                /\ Cardinality(recs) =
                        (IF last.req.risk_category \in applies THEN 1 ELSE 0)
                /\ \A i \in recs :
                        /\ mappings[i].status = "not_started"
                        /\ mappings[i].notes = None
                        /\ mappings[i].updated_by = None

(* A limited-risk system registered against a catalog of which one         *)
(* requirement applies to it and one does not.                             *)
C1_Witness ==
    /\ RegisterCompleted
    /\ last.req.risk_category = "limited"
    /\ Len(catalog) = 2
    /\ RecordsFor(last.id, 1) # {}
    /\ RecordsFor(last.id, 2) = {}

(* C2: in every state of the committed store a system is present only      *)
(* together with all of its applicable tracking records, and a             *)
(* registration that failed has committed neither the system nor any       *)
(* tracking record.                                                        *)
C2_RegistrationAtomic ==
    /\ \A s \in 1..Len(systems) :
        \A q \in 1..Len(catalog) :
            (/\ catalog[q].applies_to.json
             /\ systems[s].risk_category \in Range(catalog[q].applies_to.items))
                => RecordsFor(systems[s].id, catalog[q].id) # {}
    /\ (last.op = "create_ai_system" /\ last.code = 500) =>
            /\ FindById(systems, last.id) = {}
            /\ \A i \in 1..Len(mappings) : mappings[i].ai_system_id # last.id

(* C3: for every system S and requirement Q there is at most one tracking  *)
(* record with (ai_system_id = S, requirement_id = Q).                     *)
C3_NoDuplicates ==
    \A i, j \in 1..Len(mappings) :
        (/\ mappings[i].ai_system_id = mappings[j].ai_system_id
         /\ mappings[i].requirement_id = mappings[j].requirement_id) => i = j

(* Two registrations that overlapped (the second system was inserted       *)
(* before the records of the first were), both with records.              *)
C3_Witness ==
    /\ Len(systems) = 2
    /\ inflight = {}
    /\ \E i, j \in 1..Len(mappings) :
        /\ mappings[i].ai_system_id = 1
        /\ mappings[j].ai_system_id = 2
        /\ systems[2].created_at < mappings[i].created_at

SummaryAnswered == last.op = "get_system_compliance" /\ last.code = 200

(* Row indices of the tracking records of system sid, and those in status s *)
RecordsOf(sid) == {i \in 1..Len(mappings) : mappings[i].ai_system_id = sid}
RecordsIn(sid, s) == {i \in RecordsOf(sid) : mappings[i].status = s}

(* p hundredths of a percent is completed / total * 100 rounded to two     *)
(* decimal places: no hundredth is nearer.                                 *)
IsRounded(p, completed, total) ==
    LET d == p * total - completed * 10000 IN
    /\ p \in 0..10000
    /\ 2 * d <= total
    /\ 2 * d >= -total

(* C4: for a system with at least one tracking record the summary reports  *)
(* the number of records as total, a breakdown with all four statuses and  *)
(* the exact count of each (summing to total), the same counts as          *)
(* individual fields, and completed / total * 100 rounded to 2 decimals;   *)
(* statuses [completed, completed, in_progress, not_started] give          *)
(* 4, 2, 1, 1, 0 and 50.00.                                                *)
C4_AggregationCorrect ==
    (SummaryAnswered /\ RecordsOf(last.id) # {}) =>
        LET b == last.body
            n == Cardinality(RecordsOf(last.id))
            c(s) == Cardinality(RecordsIn(last.id, s))
        IN  /\ b.total_requirements = n
            /\ DOMAIN b.status_breakdown = ComplianceStatus
            /\ \A s \in ComplianceStatus : b.status_breakdown[s] = c(s)
            /\ b.status_breakdown["not_started"] + b.status_breakdown["in_progress"]
                + b.status_breakdown["completed"] + b.status_breakdown["non_compliant"] = n
            /\ b.requirements_completed = c("completed")
            /\ b.requirements_in_progress = c("in_progress")
            /\ b.requirements_not_started = c("not_started")
            /\ b.requirements_non_compliant = c("non_compliant")
            /\ IsRounded(b.compliance_percentage, c("completed"), n)
            /\ (/\ Len(mappings) = 4
                /\ mappings[1].status = "completed"
                /\ mappings[2].status = "completed"
                /\ mappings[3].status = "in_progress"
                /\ mappings[4].status = "not_started")
               => /\ b.total_requirements = 4
                  /\ b.requirements_completed = 2
                  /\ b.requirements_in_progress = 1
                  /\ b.requirements_not_started = 1
                  /\ b.requirements_non_compliant = 0
                  /\ b.compliance_percentage = 5000

(* The summary of three records of which two are completed: 66.67 *)
C4_Witness ==
    /\ SummaryAnswered
    /\ Len(mappings) = 3
    /\ Cardinality(RecordsIn(last.id, "completed")) = 2
    /\ last.body.compliance_percentage = 6667

(* C5 as stated: for a system with zero tracking records the summary       *)
(* reports total 0, percentage 0 and a breakdown that maps every status    *)
(* of the closed set to 0.                                                 *)
C5_ZeroedBreakdown ==
    (SummaryAnswered /\ RecordsOf(last.id) = {}) =>
        /\ last.body.total_requirements = 0
        /\ last.body.compliance_percentage = 0
        /\ DOMAIN last.body.status_breakdown = ComplianceStatus
        /\ \A s \in ComplianceStatus : last.body.status_breakdown[s] = 0

(* C5 amended: for a system with zero tracking records the summary is      *)
(* returned without error and reports total 0, percentage 0 and a status   *)
(* breakdown that is present and empty: it maps no status at all.          *)
C5_EmptyBreakdown ==
    \A sid \in 1..Len(systems) :
        (/\ last.op = "get_system_compliance"
         /\ last.id = sid
         /\ RecordsOf(sid) = {}) =>
            /\ last.code = 200
            /\ last.body.total_requirements = 0
            /\ last.body.compliance_percentage = 0
            /\ "status_breakdown" \in DOMAIN last.body
            /\ DOMAIN last.body.status_breakdown = {}

(* The summary of a system registered with a category that no requirement  *)
(* of a non-empty catalog applies to.                                      *)
C5_Witness ==
    /\ SummaryAnswered
    /\ Len(catalog) > 0
    /\ last.id \notin inflight
    /\ RowOf(systems, last.id).risk_category = "minimal"
    /\ RecordsOf(last.id) = {}

UpdateAnswered == last.op = "update_requirement_status" /\ last.code = 200

(* The update request s commits in this step *)
Commits(s) == s \in sessions /\ s.phase = "loaded" /\ s \notin sessions'

(* The update request s is answered in this step *)
Responds(s) == s \in sessions /\ s.phase = "committed" /\ s \notin sessions'

(* No other request has changed the record of request s since s read it   *)
(* or, once s has committed, since s wrote it: s does not overlap a        *)
(* competing update.                                                       *)
Undisturbed(s) == RowOf(mappings, s.mapping_id) = s.row

(* C6: update-status overwrites notes only when notes is provided and      *)
(* updated_by only when updated_by is provided: omitted, the stored value  *)
(* stays, whatever other requests are in progress; provided, the value     *)
(* replaces the one stored when the update follows the updates before it   *)
(* (none changed the record between its read and its commit).              *)
C6_UpdateFieldSemantics ==
    [][ \A s \in sessions : Commits(s) =>
            LET before == RowOf(mappings, s.mapping_id)
                after == RowOf(mappings', s.mapping_id)
            IN  /\ s.req.notes = None => after.notes = before.notes
                /\ s.req.updated_by = None => after.updated_by = before.updated_by
                /\ Undisturbed(s) =>
                        /\ s.req.notes # None => after.notes = s.req.notes
                        /\ s.req.updated_by # None => after.updated_by = s.req.updated_by
        ]_vars

(* A status-only update has changed the status of a record with notes and  *)
(* an updater, which are still stored and are reported.                    *)
C6_Witness ==
    /\ UpdateAnswered
    /\ last.req.notes = None
    /\ last.req.updated_by = None
    /\ last.body.old_status # last.body.new_status
    /\ last.body.notes = "n1"
    /\ RowOf(mappings, last.id).status = last.req.status
    /\ RowOf(mappings, last.id).notes = "n1"
    /\ RowOf(mappings, last.id).updated_by = "u1"

(* C7: every successful update-status on an existing tracking record       *)
(* advances the record's last-modified timestamp, the update that changes  *)
(* nothing included.                                                       *)
C7_TimestampAdvances ==
    [][ \A s \in sessions : Commits(s) =>
            RowOf(mappings', s.mapping_id).updated_at
                > RowOf(mappings, s.mapping_id).updated_at ]_vars

(* The operations that look a system up by its identifier *)
SystemLookups == {"get_ai_system", "get_system_requirements", "get_system_compliance"}

(* C8: a summary, a tracking-record listing or a lookup of a system that   *)
(* does not exist, and a status update of a mapping that does not exist,   *)
(* answer not found and leave the store unchanged.                         *)
C8_NotFoundNoChange ==
    [][ (\/ last'.op \in SystemLookups /\ FindById(systems, last'.id) = {}
         \/ last'.op = "update_requirement_status" /\ FindById(mappings, last'.id) = {}) =>
            /\ last'.code = 404
            /\ store' = store ]_vars

(* An update of a mapping that does not exist, in a store with mappings *)
C8_Witness ==
    /\ last.op = "update_requirement_status"
    /\ last.code = 404
    /\ Len(mappings) > 0
    /\ FindById(mappings, last.id) = {}

ReadOps == SystemLookups \cup {"list_ai_systems", "list_requirements"}

(* The same entries, whatever their order *)
SameEntries(a, b) ==
    /\ Len(a) = Len(b)
    /\ \A x \in Range(a) \cup Range(b) :
        Cardinality({i \in 1..Len(a) : a[i] = x}) = Cardinality({i \in 1..Len(b) : b[i] = x})

C10_AnyTransition ==
    [][ \A s \in sessions :
            /\ (Commits(s) /\ Undisturbed(s)) =>
                    /\ RowOf(mappings', s.mapping_id).status = s.req.status
                    /\ s.old_status = RowOf(mappings, s.mapping_id).status
            /\ Responds(s) =>
                    /\ last'.code = 200
                    /\ last'.body.old_status = s.old_status
                    /\ Undisturbed(s) =>
                            /\ last'.body.new_status = s.req.status
                            /\ RowOf(mappings, s.mapping_id).status = s.req.status
        ]_vars

(* A completed record has been set back to not_started *)
C10_Witness ==
    /\ UpdateAnswered
    /\ last.body.old_status = "completed"
    /\ last.body.new_status = "not_started"
    /\ last.req.status = "not_started"
    /\ RowOf(mappings, last.id).status = "not_started"
====
